---- MODULE Spec2Model ----
(***************************************************************************)
(* Model of the financial-calculation worker (backend-rust):               *)
(*   src/backend-rust/src/calculators.rs  the nine calculations, the bar   *)
(*                                        chart renderer, the currency     *)
(*                                        symbol lookup                    *)
(*   src/backend-rust/src/lib.rs          the fetch handler (routing)      *)
(*                                                                         *)
(* An f64 is modelled as an exact rational n/d, or one of the special      *)
(* values NaN, +inf, -inf that a division by zero produces.  Rounding of   *)
(* the binary64 format, signed zero and overflow to infinity of a finite   *)
(* product are not modelled; the request sets hold only requests whose     *)
(* results are rational (see MulPowf and LnRatio).  i32 arithmetic wraps   *)
(* (two's complement, the release profile).                                *)
(***************************************************************************)
EXTENDS Integers, Sequences, FiniteSets, TLC

----------------------------------------------------------------------------
(* f64 arithmetic *)

Abs(i) == IF i < 0 THEN -i ELSE i

Sgn(i) == IF i < 0 THEN -1 ELSE IF i > 0 THEN 1 ELSE 0

RECURSIVE Gcd(_, _)
Gcd(a, b) == IF b = 0 THEN a ELSE Gcd(b, a % b)

Lcm(a, b) == (a \div Gcd(a, b)) * b

\* the finite f64 n/d in lowest terms, d > 0
Q(n, d) ==
    LET g == Gcd(Abs(n), Abs(d))
    IN  [k |-> "fin", n |-> Sgn(d) * (n \div g), d |-> Abs(d) \div g]

I(n) == [k |-> "fin", n |-> n, d |-> 1]

NaN == [k |-> "nan", n |-> 0, d |-> 1]

PInf == [k |-> "inf", n |-> 1, d |-> 1]

NInf == [k |-> "inf", n |-> -1, d |-> 1]

Inf(s) == IF s < 0 THEN NInf ELSE PInf

IsFinite(x) == x.k = "fin"

IsNaN(x) == x.k = "nan"

FNeg(x) == [x EXCEPT !.n = -x.n]

FAdd(x, y) ==
    IF IsNaN(x) \/ IsNaN(y) THEN NaN
    ELSE IF x.k = "inf" /\ y.k = "inf" THEN (IF x.n = y.n THEN x ELSE NaN)
    ELSE IF x.k = "inf" THEN x
    ELSE IF y.k = "inf" THEN y
    ELSE LET l == Lcm(x.d, y.d)
         IN  Q(x.n * (l \div x.d) + y.n * (l \div y.d), l)

FSub(x, y) == FAdd(x, FNeg(y))

FMul(x, y) ==
    IF IsNaN(x) \/ IsNaN(y) THEN NaN
    ELSE IF x.k = "inf" \/ y.k = "inf"
         THEN (IF x.n = 0 \/ y.n = 0 THEN NaN ELSE Inf(Sgn(x.n) * Sgn(y.n)))
    ELSE LET g1 == Gcd(Abs(x.n), y.d)
             g2 == Gcd(Abs(y.n), x.d)
         IN  Q((x.n \div g1) * (y.n \div g2), (x.d \div g2) * (y.d \div g1))

FDiv(x, y) ==
    IF IsNaN(x) \/ IsNaN(y) THEN NaN
    ELSE IF x.k = "inf" THEN (IF y.k = "inf" THEN NaN
                              ELSE Inf(x.n * (IF y.n < 0 THEN -1 ELSE 1)))
    ELSE IF y.k = "inf" THEN I(0)
    ELSE IF y.n = 0 THEN (IF x.n = 0 THEN NaN ELSE Inf(Sgn(x.n)))
    ELSE FMul(x, Q(y.d, y.n))

\* -1, 0, 1 for x < y, x = y, x > y; 2 when a NaN makes them unordered
Cmp(x, y) ==
    IF IsNaN(x) \/ IsNaN(y) THEN 2
    ELSE IF x.k = "inf" /\ y.k = "inf" THEN Sgn(x.n - y.n)
    ELSE IF x.k = "inf" THEN x.n
    ELSE IF y.k = "inf" THEN -y.n
    ELSE LET l == Lcm(x.d, y.d)
         IN  Sgn(x.n * (l \div x.d) - y.n * (l \div y.d))

FLt(x, y) == Cmp(x, y) = -1

FLe(x, y) == Cmp(x, y) \in {-1, 0}

FGt(x, y) == Cmp(x, y) = 1

\* f64::max: a NaN operand is ignored
FMax(x, y) ==
    IF IsNaN(x) THEN y ELSE IF IsNaN(y) THEN x ELSE IF FLt(x, y) THEN y ELSE x

\* f64::round: to the nearest integer, halves away from zero
FRound(x) ==
    IF ~IsFinite(x) THEN x
    ELSE I(Sgn(x.n) * ((Abs(x.n) \div x.d)
                       + (IF 2 * (Abs(x.n) % x.d) >= x.d THEN 1 ELSE 0)))

\* f64::ceil
FCeil(x) ==
    IF ~IsFinite(x) THEN x
    ELSE I(-((-x.n) \div x.d))

I32Max == 2147483647

I32Min == -2147483647 - 1

\* `as i32`: truncation toward zero, NaN to 0, saturating
AsI32(x) ==
    IF IsNaN(x) THEN 0
    ELSE IF x.k = "inf" THEN (IF x.n > 0 THEN I32Max ELSE I32Min)
    ELSE Sgn(x.n) * (Abs(x.n) \div x.d)

\* i32 addition, wrapping
WrapAdd(a, b) ==
    IF a > 0 /\ b > 0 /\ a > I32Max - b THEN (a + I32Min) + (b + I32Min)
    ELSE IF a < 0 /\ b < 0 /\ a < I32Min - b THEN (a - I32Min) + (b - I32Min)
    ELSE a + b

\* i32 subtraction, wrapping
WrapSub(a, b) ==
    IF b = I32Min THEN (IF a >= 0 THEN a + I32Min ELSE (a + I32Max) + 1)
    ELSE WrapAdd(a, -b)

\* i32 multiplication a * k for a small k >= 0, wrapping
RECURSIVE WrapMul(_, _)
WrapMul(a, k) == IF k = 0 THEN 0 ELSE WrapAdd(WrapMul(a, k - 1), a)

\* `as u32` of a NaN or of a finite value: NaN and negatives to 0
AsU32(x) ==
    CASE IsNaN(x) -> 0
      [] IsFinite(x) -> IF x.n < 0 THEN 0 ELSE x.n \div x.d

\* (x * 100.0).round() / 100.0
Round2(x) == FDiv(FRound(FMul(x, I(100))), I(100))

\* (x * 10.0).round() / 10.0
Round1(x) == FDiv(FRound(FMul(x, I(10))), I(10))

\* f64::powi
RECURSIVE Powi(_, _)
Powi(b, n) ==
    IF n = 0 THEN I(1)
    ELSE IF n < 0 THEN FDiv(I(1), Powi(b, -n))
    ELSE FMul(b, Powi(b, n - 1))


IsInt(x) == IsFinite(x) /\ x.d = 1

\* f64::powf where the result is rational: an integer exponent, or base 1
Powf(b, e) ==
    CASE IsInt(e) -> Powi(b, e.n)
      [] ~IsInt(e) /\ b = I(1) -> I(1)

\* c * b.powf(e) where the result is rational: as Powf, or c = 0 and a
\* positive finite base (zero times a finite power)
MulPowf(c, b, e) ==
    CASE IsInt(e) \/ b = I(1) -> FMul(c, Powf(b, e))
      [] ~IsInt(e) /\ b # I(1) /\ c = I(0) /\ IsFinite(b) /\ b.n > 0 -> I(0)

\* the bound of the search for an integer logarithm
MaxLogSteps == 3

\* a.ln() / b.ln() for a >= 1, b >= 1, where the quotient is an f64 the model
\* holds: ln 1 = 0 makes it 0/0 = NaN, x/0 = +inf or 0/y = 0; else a = b^k
LnRatio(a, b) ==
    CASE b = I(1) /\ a = I(1) -> NaN
      [] b = I(1) /\ a # I(1) -> PInf
      [] b # I(1) /\ a = I(1) -> I(0)
      [] b # I(1) /\ a # I(1) ->
            I(CHOOSE k \in 1..MaxLogSteps : Powi(b, k) = a)

HasLnRatio(a, b) ==
    /\ IsFinite(a) /\ IsFinite(b) /\ FLe(I(1), a) /\ FLe(I(1), b)
    /\ \/ a = I(1)
       \/ b = I(1)
       \/ \E k \in 1..MaxLogSteps : Powi(b, k) = a

\* the sign of a divisor, as the divisions of a calculation are recorded:
\* -1, 0, 1, or 2 for a NaN
Divisor(expr, v) == [expr |-> expr, sign |-> IF IsNaN(v) THEN 2 ELSE Sgn(v.n)]

----------------------------------------------------------------------------
(* calculators.rs *)

get_currency_symbol_any_case(currency) ==
    CASE currency \in {"EUR", "eur"} -> "U+20AC"
      [] currency \in {"USD", "usd"} -> "$"
      [] currency \in {"UAH", "uah"} -> "U+20B4"
      [] currency \in {"BTC", "btc"} -> "U+20BF"
      [] OTHER -> "U+20AC"

\* The symbols are written by code point: U+20AC is the euro sign, U+20B4 the
\* hryvnia sign, U+20BF the bitcoin sign.
get_currency_symbol(currency) ==
    CASE currency = "EUR" -> "U+20AC"
      [] currency = "USD" -> "$"
      [] currency = "UAH" -> "U+20B4"
      [] currency = "BTC" -> "U+20BF"
      [] OTHER -> "U+20AC"

\* values.iter().cloned().fold(0.0, f64::max)
RECURSIVE FoldMax(_, _)
FoldMax(acc, values) ==
    IF values = <<>> THEN acc
    ELSE FoldMax(FMax(acc, Head(values)), Tail(values))

\* let h = (value * scale) as i32
BarHeightRounded(value, scale) == AsI32(FRound(FMul(value, scale)))

BarHeight(value, scale) == AsI32(FMul(value, scale))

Min(a, b) == IF a < b THEN a ELSE b

\* "<svg></svg>": a root element with no attribute and no child
MinimalChart == [attrs |-> <<>>, background |-> <<>>, title |-> <<>>, bars |-> <<>>]

\* The markup as a tree (the Ukrainian titles and labels are transliterated): the root's width and height, the background
\* rectangle, the title text, and per bar its rectangle and two texts.
create_bar_chart(title, labels, values, colors) ==
    LET width == 400
        height == 300
        padding == 40
        chart_width == width - padding * 2
        chart_height == height - padding * 2
        max_val == FoldMax(I(0), values)
        scale == IF FGt(max_val, I(0)) THEN FDiv(I(chart_height), max_val) ELSE I(1)
        bar_width == chart_width \div Len(labels) - 10
        Bar(j) ==
            LET i == j - 1
                value == values[j]
                x == padding + i * (bar_width + 10) + 5
                h == BarHeight(value, scale)
                y == WrapSub(height - padding, h)
            IN  [x |-> x, y |-> y, width |-> bar_width, height |-> h,
                 fill |-> IF j <= Len(colors) THEN colors[j] ELSE "#3498db",
                 rx |-> 4,
                 label |-> labels[j], label_x |-> x + bar_width \div 2,
                 label_y |-> height - padding + 15,
                 value |-> FRound(value), value_x |-> x + bar_width \div 2,
                 value_y |-> WrapSub(y, 5)]
    IN  [attrs |-> <<width, height>>,
         background |-> <<"white">>,
         title |-> <<[x |-> width \div 2, text |-> title]>>,
         bars |-> [j \in 1..Min(Len(labels), Len(values)) |-> Bar(j)]]

NoLoops == [buy |-> 0, rent |-> <<>>]

calculate_hourly_income(req) ==
    LET net_monthly == FSub(FMul(req.monthly_income,
                                 FSub(I(1), FDiv(req.taxes, I(100)))),
                            req.work_expenses)
        total_hours == FAdd(req.work_hours, req.commute_time)
        real_hourly == FDiv(net_monthly, total_hours)
        nom_hourly == FDiv(req.monthly_income, req.work_hours)
        efficiency == FMul(FDiv(real_hourly, nom_hourly), I(100))
        values == <<nom_hourly, real_hourly>>
        chart == create_bar_chart("Porivniannia stavok",
                                  <<"Nominalna", "Realna">>,
                                  values,
                                  <<"#95a5a6", "#2ecc71">>)
    IN  [resp |-> [real_hourly_income |-> Round2(real_hourly),
                   nominal_hourly_income |-> Round2(nom_hourly),
                   net_income |-> Round2(net_monthly),
                   efficiency |-> Round1(efficiency),
                   currency_symbol |-> get_currency_symbol(req.currency),
                   chart |-> chart],
         renders |-> <<[values |-> values, chart |-> chart]>>,
         divisors |-> <<Divisor("total_hours", total_hours),
                        Divisor("work_hours", req.work_hours),
                        Divisor("nom_hourly", nom_hourly)>>,
         loops |-> NoLoops]

calculate_time_value(req) ==
    LET hourly == FDiv(req.annual_income, req.annual_hours)
        values == <<hourly, FMul(hourly, I(8)), FMul(hourly, I(40)), FMul(hourly, I(160))>>
        chart == create_bar_chart("Vartist chasu",
                                  <<"Hodyna", "Den", "Tyzhden", "Misiats">>,
                                  values,
                                  <<"#3498db", "#3498db", "#3498db", "#3498db">>)
    IN  [resp |-> [time_value |-> Round2(hourly),
                   currency_symbol |-> get_currency_symbol(req.currency),
                   chart |-> chart],
         renders |-> <<[values |-> values, chart |-> chart]>>,
         divisors |-> <<Divisor("annual_hours", req.annual_hours)>>,
         loops |-> NoLoops]

\* let fv = if r > 0.0
CompoundsOrZero(r) == FLe(I(0), r)

Compounds(r) == FGt(r, I(0))

calculate_investment(req) ==
    LET r == FDiv(FDiv(req.annual_return, I(100)), I(12))
        n == AsI32(FMul(req.period, I(12)))
        general == Compounds(r)
        fv == IF general
              THEN FAdd(FMul(req.initial_amount, Powi(FAdd(I(1), r), n)),
                        FMul(req.monthly_contribution,
                             FDiv(FSub(Powi(FAdd(I(1), r), n), I(1)), r)))
              ELSE FAdd(req.initial_amount, FMul(req.monthly_contribution, I(n)))
        total_inv == FAdd(req.initial_amount, FMul(req.monthly_contribution, I(n)))
        gain == FSub(fv, total_inv)
        has_roi == FGt(total_inv, I(0))
        roi == IF has_roi THEN FMul(FDiv(gain, total_inv), I(100)) ELSE I(0)
        values == <<total_inv, gain>>
        chart == create_bar_chart("Struktura kapitalu",
                                  <<"Vnesky", "Prybutok">>,
                                  values,
                                  <<"#3498db", "#2ecc71">>)
    IN  [resp |-> [future_value |-> Round2(fv),
                   total_contributions |-> Round2(total_inv),
                   total_gain |-> Round2(gain),
                   roi |-> Round1(roi),
                   currency_symbol |-> get_currency_symbol(req.currency),
                   chart |-> chart],
         renders |-> <<[values |-> values, chart |-> chart]>>,
         divisors |-> (IF general THEN <<Divisor("r", r)>> ELSE <<>>)
                      \o (IF has_roi THEN <<Divisor("total_inv", total_inv)>> ELSE <<>>),
         loops |-> NoLoops]

calculate_credit(req) ==
    LET r == FDiv(FDiv(req.rate, I(100)), I(12))
        n == FMul(req.term, I(12))
        annuity == FGt(r, I(0)) /\ FGt(n, I(0))
        linear == ~annuity /\ FGt(n, I(0))
        pmt == IF annuity
               THEN FDiv(FMul(req.amount, FMul(r, Powf(FAdd(I(1), r), n))),
                         FSub(Powf(FAdd(I(1), r), n), I(1)))
               ELSE IF linear THEN FDiv(req.amount, n)
               ELSE I(0)
        total == FMul(pmt, n)
        overpayment == FSub(total, req.amount)
        values == <<req.amount, overpayment>>
        chart == create_bar_chart("Struktura vyplat",
                                  <<"Tilo", "Pereplata">>,
                                  values,
                                  <<"#3498db", "#e74c3c">>)
    IN  [resp |-> [monthly_payment |-> Round2(pmt),
                   total_payment |-> Round2(total),
                   overpayment |-> Round2(overpayment),
                   currency_symbol |-> get_currency_symbol(req.currency),
                   chart |-> chart],
         renders |-> <<[values |-> values, chart |-> chart]>>,
         divisors |-> IF annuity
                      THEN <<Divisor("(1+r)^n - 1", FSub(Powf(FAdd(I(1), r), n), I(1)))>>
                      ELSE IF linear THEN <<Divisor("n", n)>>
                      ELSE <<>>,
         loops |-> NoLoops]

calculate_retirement(req) ==
    LET years_to_save == FSub(req.retirement_age, req.current_age)
        r == FDiv(FDiv(req.expected_return, I(100)), I(12))
        n == AsI32(FMul(years_to_save, I(12)))
        general == FGt(r, I(0))
        fv_existing == FMul(req.current_savings, Powi(FAdd(I(1), r), n))
        fv_monthly == IF general
                      THEN FMul(req.monthly_savings,
                                FDiv(FSub(Powi(FAdd(I(1), r), n), I(1)), r))
                      ELSE FMul(req.monthly_savings, I(n))
        total_fv == FAdd(fv_existing, fv_monthly)
        required_capital == FDiv(FMul(req.desired_income, I(12)), Q(4, 100))
        gap == FMax(FSub(required_capital, total_fv), I(0))
        values == <<total_fv, required_capital>>
        chart == create_bar_chart("Pensiine zabezpechennia",
                                  <<"Matymete", "Neobkhidno">>,
                                  values,
                                  <<"#2ecc71", "#e67e22">>)
    IN  [resp |-> [future_value |-> Round2(total_fv),
                   required_capital |-> Round2(required_capital),
                   gap |-> Round2(gap),
                   currency_symbol |-> get_currency_symbol(req.currency),
                   chart |-> chart],
         renders |-> <<[values |-> values, chart |-> chart]>>,
         divisors |-> IF general THEN <<Divisor("r", r)>> ELSE <<>>,
         loops |-> NoLoops]

\* if p <= req.balance * r
DebtNeverAmortizesNoRate(p, balance, r) == FLe(p, balance)

DebtNeverAmortizes(p, balance, r) == FLe(p, FMul(balance, r))

\* the early return of calculate_debt_payoff
DebtSentinelRendered(req) ==
    LET values == <<req.balance, I(0)>>
        chart == create_bar_chart("Struktura borhu", <<"Borh", "Vidsotky">>, values,
                                  <<"#3498db", "#e74c3c">>)
    IN  [resp |-> [months |-> 999,
                   total_paid |-> I(0),
                   total_interest |-> I(0),
                   currency_symbol |-> get_currency_symbol(req.currency),
                   chart |-> chart],
         renders |-> <<[values |-> values, chart |-> chart]>>,
         divisors |-> <<>>,
         loops |-> NoLoops]

DebtSentinel(req) ==
    [resp |-> [months |-> 999,
               total_paid |-> I(0),
               total_interest |-> I(0),
               currency_symbol |-> get_currency_symbol(req.currency),
               chart |-> MinimalChart],
     renders |-> <<>>,
     divisors |-> <<>>,
     loops |-> NoLoops]

calculate_debt_payoff(req) ==
    LET r == FDiv(FDiv(req.interest_rate, I(100)), I(12))
        p == FAdd(req.monthly_payment, req.extra_payment)
        ratio == FDiv(p, FSub(p, FMul(req.balance, r)))
        months == LnRatio(ratio, FAdd(I(1), r))
        total_paid == FMul(p, months)
        total_interest == FSub(total_paid, req.balance)
        values == <<req.balance, total_interest>>
        chart == create_bar_chart("Struktura borhu",
                                  <<"Borh", "Vidsotky">>,
                                  values,
                                  <<"#3498db", "#e74c3c">>)
    IN  IF DebtNeverAmortizes(p, req.balance, r)
        THEN DebtSentinel(req)
        ELSE [resp |-> [months |-> AsU32(FCeil(months)),
                        total_paid |-> Round2(total_paid),
                        total_interest |-> Round2(total_interest),
                        currency_symbol |-> get_currency_symbol(req.currency),
                        chart |-> chart],
              renders |-> <<[values |-> values, chart |-> chart]>>,
              divisors |-> <<Divisor("p - balance*r", FSub(p, FMul(req.balance, r))),
                             Divisor("ln(1+r)", FSub(FAdd(I(1), r), I(1)))>>,
              loops |-> NoLoops]

\* if req.monthly_contribution > 0.0
ContributesOrZero(monthly_contribution) == FLe(I(0), monthly_contribution)

Contributes(monthly_contribution) == FGt(monthly_contribution, I(0))

calculate_emergency_fund(req) ==
    LET target == FMul(req.monthly_expenses, req.months_coverage)
        remaining == FMax(FSub(target, req.current_savings), I(0))
        divides == Contributes(req.monthly_contribution)
        months_to_target == IF divides
                            THEN FDiv(remaining, req.monthly_contribution)
                            ELSE I(-1)
        values == <<req.current_savings, target>>
        chart == create_bar_chart("Status podushky",
                                  <<"Naiavne", "Tsil">>,
                                  values,
                                  <<"#3498db", "#f1c40f">>)
    IN  [resp |-> [target_amount |-> Round2(target),
                   remaining_amount |-> Round2(remaining),
                   months_to_target |-> Round1(months_to_target),
                   currency_symbol |-> get_currency_symbol(req.currency),
                   chart |-> chart],
         renders |-> <<[values |-> values, chart |-> chart]>>,
         divisors |-> IF divides
                      THEN <<Divisor("monthly_contribution", req.monthly_contribution)>>
                      ELSE <<>>,
         loops |-> NoLoops]

calculate_tax(req) ==
    LET rate == FDiv(req.tax_rate, I(100))
        tax_amount == FMul(req.income, rate)
        net_income == FSub(req.income, tax_amount)
        values == <<net_income, tax_amount>>
        chart == create_bar_chart("Struktura dokhodu",
                                  <<"Chystyi", "Podatok">>,
                                  values,
                                  <<"#2ecc71", "#e74c3c">>)
    IN  [resp |-> [tax_amount |-> Round2(tax_amount),
                   net_income |-> Round2(net_income),
                   effective_rate |-> Round1(FMul(rate, I(100))),
                   currency_symbol |-> get_currency_symbol(req.currency),
                   chart |-> chart],
         renders |-> <<[values |-> values, chart |-> chart]>>,
         divisors |-> <<>>,
         loops |-> NoLoops]

\* for _ in 1..=(req.horizon as i32 * 12): the iterations of the range
LoopCount(horizon) ==
    LET last == WrapMul(AsI32(horizon), 12)
    IN  IF last < 1 THEN 0 ELSE last

\* the buy-side loop from iteration m on: the total and the iterations run
RECURSIVE BuyLoop(_, _, _, _)
BuyLoop(m, last, monthly, st) ==
    IF m > last THEN st
    ELSE BuyLoop(m + 1, last, monthly,
                 [total |-> FAdd(st.total, monthly), iters |-> st.iters + 1])

\* the rent loop from month m on: the total, the current rent, and the rent
\* added in each month so far
RECURSIVE RentLoop(_, _, _, _)
RentLoop(m, last, rent_growth, st) ==
    IF m > last THEN st
    ELSE RentLoop(m + 1, last, rent_growth,
                  [total |-> FAdd(st.total, st.curr_rent),
                   curr_rent |-> IF m % 12 = 0
                                 THEN FMul(st.curr_rent,
                                           FAdd(I(1), FDiv(rent_growth, I(100))))
                                 ELSE st.curr_rent,
                   added |-> Append(st.added, st.curr_rent)])

calculate_buy_rent(req) ==
    LET loan == FMax(FSub(req.property_price, req.down_payment), I(0))
        r == FDiv(FDiv(req.mortgage_rate, I(100)), I(12))
        n == AsI32(FMul(req.mortgage_term, I(12)))
        annuity == FGt(loan, I(0)) /\ FGt(r, I(0))
        linear == ~annuity /\ FGt(loan, I(0)) /\ n > 0
        mp == IF annuity
              THEN FDiv(FMul(loan, FMul(r, Powi(FAdd(I(1), r), n))),
                        FSub(Powi(FAdd(I(1), r), n), I(1)))
              ELSE IF linear THEN FDiv(loan, I(n))
              ELSE I(0)
        last == LoopCount(req.horizon)
        buy == BuyLoop(1, last,
                       FAdd(mp, FDiv(FMul(req.property_price, Q(1, 100)), I(12))),
                       [total |-> req.down_payment, iters |-> 0])
        rent == RentLoop(1, last, req.rent_growth,
                         [total |-> I(0), curr_rent |-> req.monthly_rent,
                          added |-> <<>>])
        final_prop_val == MulPowf(req.property_price,
                                  FAdd(I(1), FDiv(req.property_growth, I(100))),
                                  req.horizon)
        net_buy == FSub(final_prop_val, buy.total)
        net_rent == FSub(MulPowf(req.down_payment, Q(107, 100), req.horizon),
                         rent.total)
        values == <<net_buy, net_rent>>
        chart == create_bar_chart("Kapital cherez horyzont",
                                  <<"Kupivlia", "Orenda">>,
                                  values,
                                  <<"#2ecc71", "#3498db">>)
    IN  [resp |-> [net_buy_position |-> Round2(net_buy),
                   net_rent_position |-> Round2(net_rent),
                   recommendation |-> IF FGt(net_buy, net_rent) THEN "buy" ELSE "rent",
                   currency_symbol |-> get_currency_symbol(req.currency),
                   chart |-> chart],
         renders |-> <<[values |-> values, chart |-> chart]>>,
         divisors |-> IF annuity
                      THEN <<Divisor("(1+r)^n - 1", FSub(Powi(FAdd(I(1), r), n), I(1)))>>
                      ELSE IF linear THEN <<Divisor("n", I(n))>>
                      ELSE <<>>,
         loops |-> [buy |-> buy.iters, rent |-> rent.added]]

----------------------------------------------------------------------------
(* the requests of the model *)

MaxHorizon == 2

Currencies == {"EUR", "USD", "UAH", "BTC", "", "usd", "GBP"}

HourlyIncomeRequests ==
    [monthly_income : {I(0), I(3000)}, taxes : {I(0), I(20)},
     work_hours : {I(0), I(160)}, commute_time : {I(0), I(40), I(-160)},
     work_expenses : {I(0), I(200), I(4000)}, currency : Currencies]

TimeValueRequests ==
    [annual_income : {I(0), I(50000), I(-100)}, annual_hours : {I(0), I(2000)},
     currency : Currencies]

InvestmentRequests ==
    [initial_amount : {I(0), I(10), Q(1, 250)},
     monthly_contribution : {I(0), I(1)},
     annual_return : {I(0), I(1200), I(-12)},
     period : {I(0), I(1), Q(1, 8), I(-1)}, currency : Currencies]

CreditRequests ==
    [amount : {I(0), I(1000)}, rate : {I(0), I(1200)},
     term : {I(0), I(1), Q(1, 12)}, currency : Currencies]

RetirementRequests ==
    [current_age : {I(30), I(31)}, retirement_age : {I(30), I(31)},
     desired_income : {I(0), I(100)}, current_savings : {I(0), I(1000)},
     monthly_savings : {I(0), I(100)}, expected_return : {I(0), I(1200)},
     currency : Currencies]

\* the requests whose payoff time is an f64 the model holds (see LnRatio)
DebtPayoffRequests ==
    {req \in [balance : {I(0), I(100), I(201), I(10000)},
              interest_rate : {I(0), I(12)},
              monthly_payment : {I(-1), I(0), I(50), I(101), Q(10201, 100)},
              extra_payment : {I(0), I(50)}, currency : Currencies] :
        LET r == FDiv(FDiv(req.interest_rate, I(100)), I(12))
            p == FAdd(req.monthly_payment, req.extra_payment)
        IN  \/ FLe(p, FMul(req.balance, r))
            \/ HasLnRatio(FDiv(p, FSub(p, FMul(req.balance, r))), FAdd(I(1), r))}

EmergencyFundRequests ==
    [monthly_expenses : {I(0), I(100), I(-100)}, months_coverage : {I(0), I(3)},
     current_savings : {I(0), I(200), I(1000)},
     monthly_contribution : {I(-50), I(0), I(7), I(100)}, currency : Currencies]

TaxRequests ==
    [income : {I(0), I(1000), Q(333, 100)}, tax_rate : {I(0), I(20), I(150)},
     currency : Currencies]

\* the requests whose powers are rational (see MulPowf); a down payment is
\* compounded over at most two years, which keeps 1.07^horizon times it, scaled
\* into the chart, within the integers of the model checker
BuyRentRequests ==
    {req \in [property_price : {I(0), I(1200)}, down_payment : {I(0), I(240)},
              mortgage_rate : {I(0), I(1200)},
              mortgage_term : {I(0), Q(1, 12), Q(1, 6)},
              monthly_rent : {I(0), I(10)}, rent_growth : {I(0), I(10)},
              property_growth : {I(0), I(10)},
              horizon : {I(h) : h \in -1..MaxHorizon} \cup {Q(3, 2)},
              currency : Currencies] :
        /\ IsInt(req.horizon) \/ (req.down_payment = I(0) /\ req.property_growth = I(0))
        /\ req.down_payment = I(0) \/ FLe(req.horizon, I(2))}

CalcRoutes ==
    {"/calculate/hourly-income", "/calculate/time-value", "/calculate/investment",
     "/calculate/credit", "/calculate/retirement", "/calculate/debt-payoff",
     "/calculate/emergency-fund", "/calculate/tax", "/calculate/buy-rent"}

Methods == {"OPTIONS", "GET", "POST", "PUT"}

Paths == CalcRoutes \cup {"/health", "/"}

\* a body that was not decoded
NoData == [currency |-> ""]

\* the requests whose body is not decoded into a request record
PlainRequests == [method : Methods, path : Paths, decodes : BOOLEAN, data : {NoData}]

----------------------------------------------------------------------------
(* lib.rs *)

VARIABLES
    request,    \* the request handled last
    reply,      \* the reply to it: status, headers, body
    invoked,    \* the calculation functions main called for it, in order
    renders,    \* the calls of create_bar_chart while handling it: values, result
    divisors,   \* the divisors of the divisions the calculation performed
    loops       \* calculate_buy_rent: iterations of the buy loop, rents added

vars == <<request, reply, invoked, renders, divisors, loops>>

Null == [k |-> "null", n |-> 0, d |-> 1]

\* serde_json writes a NaN or an infinity as null
JsonF64(v) == IF IsFinite(v) THEN v ELSE Null

\* serde_json::to_string(&result)
to_string(result) ==
    [f \in DOMAIN result |->
        IF f \in {"chart", "currency_symbol", "recommendation", "months"}
        THEN result[f]
        ELSE JsonF64(result[f])]

CorsHeaders ==
    {<<"Access-Control-Allow-Origin", "*">>,
     <<"Access-Control-Allow-Methods", "GET, POST, OPTIONS">>,
     <<"Access-Control-Allow-Headers", "Content-Type">>}

JsonHeaders ==
    {<<"Content-Type", "application/json">>, <<"Access-Control-Allow-Origin", "*">>}

\* Response::error(format!("Bad Request: {}", e), 400)
BadRequestAsServerError == [status |-> 500, headers |-> {}, body |-> [text |-> "Bad Request"]]

BadRequestReply == [status |-> 400, headers |-> {}, body |-> [text |-> "Bad Request"]]

\* Response::error("Not Found", 404)
NotFoundReply == [status |-> 404, headers |-> {}, body |-> [text |-> "Not Found"]]

\* Ok(Response::ok(json)?.with_headers(headers))
JsonReply(result) == [status |-> 200, headers |-> JsonHeaders, body |-> to_string(result)]

Init ==
    /\ request = [method |-> "", path |-> "", decodes |-> FALSE, data |-> NoData]
    /\ reply = [status |-> 0, headers |-> {}, body |-> [text |-> ""]]
    /\ invoked = <<>>
    /\ renders = <<>>
    /\ divisors = <<>>
    /\ loops = NoLoops

\* One behaviour is one invocation of main: the fetch event hands it one
\* request, and nothing of an invocation outlives its reply.
Pending == request.method = ""

\* a request answered without any calculation
Answer(req, rep) ==
    /\ request' = req
    /\ reply' = rep
    /\ invoked' = <<>>
    /\ renders' = <<>>
    /\ divisors' = <<>>
    /\ loops' = NoLoops

\* a decoded POST to a calculator endpoint: the calculation, then its JSON
Calculate(path, data, fn, out) ==
    /\ request' = [method |-> "POST", path |-> path, decodes |-> TRUE, data |-> data]
    /\ reply' = JsonReply(out.resp)
    /\ invoked' = <<fn>>
    /\ renders' = out.renders
    /\ divisors' = out.divisors
    /\ loops' = out.loops

Options ==
    \E req \in PlainRequests :
        /\ Pending
        /\ req.method = "OPTIONS"
        /\ Answer(req, [status |-> 200, headers |-> CorsHeaders, body |-> [text |-> ""]])

Health ==
    \E req \in PlainRequests :
        /\ Pending
        /\ req.method = "GET" /\ req.path = "/health"
        /\ Answer(req, [status |-> 200, headers |-> {}, body |-> [text |-> "OK"]])

BadRequest ==
    \E req \in PlainRequests :
        /\ Pending
        /\ req.method = "POST" /\ req.path \in CalcRoutes /\ ~req.decodes
        /\ Answer(req, BadRequestReply)

NotFound ==
    \E req \in PlainRequests :
        /\ Pending
        /\ req.method # "OPTIONS"
        /\ ~(req.method = "GET" /\ req.path = "/health")
        /\ req.method = "POST" => req.path \notin CalcRoutes
        /\ Answer(req, NotFoundReply)

HourlyIncome ==
    \E data \in HourlyIncomeRequests :
        /\ Pending
        /\ Calculate("/calculate/hourly-income", data, "calculate_hourly_income",
                     calculate_hourly_income(data))

TimeValue ==
    \E data \in TimeValueRequests :
        /\ Pending
        /\ Calculate("/calculate/time-value", data, "calculate_time_value",
                     calculate_time_value(data))

Investment ==
    \E data \in InvestmentRequests :
        /\ Pending
        /\ Calculate("/calculate/investment", data, "calculate_investment",
                     calculate_investment(data))

Credit ==
    \E data \in CreditRequests :
        /\ Pending
        /\ Calculate("/calculate/credit", data, "calculate_credit",
                     calculate_credit(data))

Retirement ==
    \E data \in RetirementRequests :
        /\ Pending
        /\ Calculate("/calculate/retirement", data, "calculate_retirement",
                     calculate_retirement(data))

DebtPayoff ==
    \E data \in DebtPayoffRequests :
        /\ Pending
        /\ Calculate("/calculate/debt-payoff", data, "calculate_debt_payoff",
                     calculate_debt_payoff(data))

EmergencyFund ==
    \E data \in EmergencyFundRequests :
        /\ Pending
        /\ Calculate("/calculate/emergency-fund", data, "calculate_emergency_fund",
                     calculate_emergency_fund(data))

Tax ==
    \E data \in TaxRequests :
        /\ Pending
        /\ Calculate("/calculate/tax", data, "calculate_tax", calculate_tax(data))

BuyRent ==
    \E data \in BuyRentRequests :
        /\ Pending
        /\ Calculate("/calculate/buy-rent", data, "calculate_buy_rent",
                     calculate_buy_rent(data))

Next ==
    \/ Options
    \/ Health
    \/ BadRequest
    \/ NotFound
    \/ HourlyIncome
    \/ TimeValue
    \/ Investment
    \/ Credit
    \/ Retirement
    \/ DebtPayoff
    \/ EmergencyFund
    \/ Tax
    \/ BuyRent

Spec == Init /\ [][Next]_vars

----------------------------------------------------------------------------
(* the claims *)

Served(fn) == invoked = <<fn>>

\* C1: calculate_debt_payoff returns the sentinel response (months 999,
\* total_paid 0, total_interest 0, the chart "<svg></svg>", the currency's
\* symbol) exactly when p = monthly_payment + extra_payment is at most
\* balance * r, r = interest_rate/100/12; when p is larger the response comes
\* from the amortization formula (the logarithm is taken, a chart is drawn).
C1_SentinelExactlyWhenNoAmortization ==
    Served("calculate_debt_payoff") =>
        LET d == request.data
            p == FAdd(d.monthly_payment, d.extra_payment)
            interest == FDiv(FMul(d.balance, d.interest_rate), I(1200))
        IN  /\ FLe(p, interest) =>
                /\ reply.body = [months |-> 999, total_paid |-> I(0),
                                 total_interest |-> I(0),
                                 chart |-> [attrs |-> <<>>, background |-> <<>>,
                                            title |-> <<>>, bars |-> <<>>],
                                 currency_symbol |-> get_currency_symbol(d.currency)]
                /\ renders = <<>>
                /\ divisors = <<>>
            /\ FGt(p, interest) =>
                /\ Len(renders) = 1
                /\ reply.body.chart.attrs # <<>>
                /\ \E i \in 1..Len(divisors) : divisors[i].expr = "ln(1+r)"

\* the boundary: p = 50 + 50 equals balance * r = 10000 * 0.01
C1_Witness ==
    /\ Served("calculate_debt_payoff")
    /\ request.data.balance = I(10000) /\ request.data.interest_rate = I(12)
    /\ request.data.monthly_payment = I(50) /\ request.data.extra_payment = I(50)
    /\ reply.body.months = 999

\* C2: get_currency_symbol maps EUR, USD, UAH, BTC to their symbols and every
\* other string (the empty string, "usd") to the euro sign, and the response
\* of every calculation, on every return path, carries the symbol of the
\* request's currency.
C2_CurrencySymbol ==
    invoked # <<>> =>
        LET c == request.data.currency
        IN  reply.body.currency_symbol =
                IF c = "USD" THEN "$"
                ELSE IF c = "UAH" THEN "U+20B4"
                ELSE IF c = "BTC" THEN "U+20BF"
                ELSE "U+20AC"

\* the early return of calculate_debt_payoff, with an unrecognized code
C2_Witness ==
    /\ Served("calculate_debt_payoff") /\ renders = <<>>
    /\ request.data.currency = "usd"
    /\ reply.body.currency_symbol = "U+20AC"

\* C3: calculate_emergency_fund: remaining = max(0, target - current_savings)
\* with target = monthly_expenses * months_coverage, so remaining_amount is
\* never negative; months_to_target is -1 exactly when monthly_contribution
\* is <= 0 and otherwise remaining / monthly_contribution rounded to one
\* decimal, which is >= 0; the only division is by a positive contribution.
C3_EmergencyFund ==
    Served("calculate_emergency_fund") =>
        LET d == request.data
            target == FMul(d.monthly_expenses, d.months_coverage)
            short == FSub(target, d.current_savings)
            remaining == IF FGt(short, I(0)) THEN short ELSE I(0)
            b == reply.body
        IN  /\ b.target_amount = Round2(target)
            /\ b.remaining_amount = Round2(remaining)
            /\ FLe(I(0), b.remaining_amount)
            /\ (b.months_to_target = I(-1)) <=> FLe(d.monthly_contribution, I(0))
            /\ FGt(d.monthly_contribution, I(0)) =>
                /\ b.months_to_target = Round1(FDiv(remaining, d.monthly_contribution))
                /\ FLe(I(0), b.months_to_target)
            /\ \A i \in 1..Len(divisors) : divisors[i].sign = 1
            /\ FLe(d.monthly_contribution, I(0)) => divisors = <<>>

\* a zero contribution, with money still missing
C3_Witness ==
    /\ Served("calculate_emergency_fund")
    /\ request.data.monthly_contribution = I(0)
    /\ reply.body.remaining_amount = I(100)
    /\ reply.body.months_to_target = I(-1)

\* C4 as stated: with annual_return = 0 the linear branch is taken, the
\* formula that divides by r is not evaluated, and future_value is exactly
\* initial_amount + monthly_contribution * (period * 12), which is
\* total_contributions, with total_gain 0.
C4_ZeroReturnExactSum ==
    (Served("calculate_investment") /\ request.data.annual_return = I(0)) =>
        LET d == request.data
            b == reply.body
        IN  /\ \A i \in 1..Len(divisors) : divisors[i].expr # "r"
            /\ b.future_value =
                   FAdd(d.initial_amount,
                        FMul(d.monthly_contribution, FMul(d.period, I(12))))
            /\ b.future_value = b.total_contributions
            /\ b.total_gain = I(0)

\* C4: with annual_return = 0 the linear branch is taken, the formula that
\* divides by r is not evaluated, and future_value is initial_amount +
\* monthly_contribution * n rounded to two decimals, n being period * 12
\* truncated to an integer; it equals total_contributions, and total_gain is 0.
C4_ZeroReturnLinearSum ==
    (Served("calculate_investment") /\ request.data.annual_return = I(0)) =>
        LET d == request.data
            b == reply.body
            months == FMul(d.period, I(12))
            n == Sgn(months.n) * (Abs(months.n) \div months.d)
        IN  /\ \A i \in 1..Len(divisors) : divisors[i].expr # "r"
            /\ b.future_value =
                   Round2(FAdd(d.initial_amount, FMul(d.monthly_contribution, I(n))))
            /\ b.future_value = b.total_contributions
            /\ b.total_gain = I(0)

\* a zero return over a year of contributions
C4_Witness ==
    /\ Served("calculate_investment")
    /\ request.data.annual_return = I(0) /\ request.data.period = I(1)
    /\ request.data.initial_amount = I(10) /\ request.data.monthly_contribution = I(1)
    /\ reply.body.future_value = I(22)

\* C5 as stated: every calculation calls create_bar_chart exactly once on every
\* path, the early return of calculate_debt_payoff included, and the
\* response's chart is what that call returned.
C5_RendersOnceOnEveryPath ==
    invoked # <<>> =>
        /\ Len(renders) = 1
        /\ reply.body.chart = renders[1].chart

\* C5: every calculation calls create_bar_chart exactly once and returns that
\* call's result as the chart, except calculate_debt_payoff's early return
\* (p <= balance * r), which calls it not at all and returns "<svg></svg>".
C5_RendersOnceButForSentinel ==
    invoked # <<>> =>
        LET d == request.data
            early == /\ Served("calculate_debt_payoff")
                     /\ FLe(FAdd(d.monthly_payment, d.extra_payment),
                            FDiv(FMul(d.balance, d.interest_rate), I(1200)))
        IN  /\ early =>
                /\ renders = <<>>
                /\ reply.body.chart = [attrs |-> <<>>, background |-> <<>>,
                                       title |-> <<>>, bars |-> <<>>]
            /\ ~early =>
                /\ Len(renders) = 1
                /\ reply.body.chart = renders[1].chart
                /\ reply.body.chart.attrs = <<400, 300>>

\* the early return, and no call of the renderer
C5_Witness ==
    /\ Served("calculate_debt_payoff")
    /\ reply.body.months = 999
    /\ renders = <<>>
    /\ reply.body.chart.bars = <<>>

\* max(0, max(values)) and the scale of a call of the renderer
C6_Scale(values) ==
    LET Max[j \in 0..Len(values)] ==
            IF j = 0 THEN I(0)
            ELSE IF FGt(values[j], Max[j - 1]) THEN values[j] ELSE Max[j - 1]
    IN  IF FGt(Max[Len(values)], I(0)) THEN FDiv(I(220), Max[Len(values)]) ELSE I(1)

\* C6 as stated: every bar's height is values[i] * scale rounded to the
\* nearest integer, and its y is 260 - h.
C6_HeightRounded ==
    \A c \in 1..Len(renders) :
        \A j \in 1..Len(renders[c].values) :
            LET v == FMul(renders[c].values[j], C6_Scale(renders[c].values))
                bar == renders[c].chart.bars[j]
            IN  IsFinite(v) =>
                    /\ bar.height = FRound(v).n
                    /\ bar.y = 260 - bar.height

\* C6: every bar's height is values[i] * scale converted by the `as i32` cast:
\* truncated toward zero, 0 for a NaN, the nearest i32 for an infinity; scale
\* is 220 / max_value if max_value = max(0, max(values)) > 0 and 1 otherwise;
\* the bar's y is 260 - h in i32 arithmetic (it wraps for h below 260 - 2^31 + 1).
C6_HeightTruncated ==
    \A c \in 1..Len(renders) :
        /\ Len(renders[c].chart.bars) = Len(renders[c].values)
        /\ \A j \in 1..Len(renders[c].values) :
            LET v == FMul(renders[c].values[j], C6_Scale(renders[c].values))
                bar == renders[c].chart.bars[j]
                h == IF IsNaN(v) THEN 0
                     ELSE IF v.k = "inf" THEN (IF v.n > 0 THEN I32Max ELSE I32Min)
                     ELSE IF v.n >= 0 THEN v.n \div v.d
                     ELSE -((-v.n) \div v.d)
            IN  /\ bar.height = h
                /\ bar.y = IF h > I32Min + 260 THEN 260 - h ELSE (260 + I32Min) - (h - I32Min)

\* a bar whose scaled value, 146 2/3, is no integer
C6_Witness ==
    /\ Served("calculate_emergency_fund")
    /\ renders[1].values = <<I(200), I(300)>>
    /\ renders[1].chart.bars[1].height = 146
    /\ renders[1].chart.bars[1].y = 114

\* the calculation a route's match arm calls
C7_Function(path) ==
    CASE path = "/calculate/hourly-income" -> "calculate_hourly_income"
      [] path = "/calculate/time-value" -> "calculate_time_value"
      [] path = "/calculate/investment" -> "calculate_investment"
      [] path = "/calculate/credit" -> "calculate_credit"
      [] path = "/calculate/retirement" -> "calculate_retirement"
      [] path = "/calculate/debt-payoff" -> "calculate_debt_payoff"
      [] path = "/calculate/emergency-fund" -> "calculate_emergency_fund"
      [] path = "/calculate/tax" -> "calculate_tax"
      [] path = "/calculate/buy-rent" -> "calculate_buy_rent"

\* C7: a POST to one of the nine /calculate/* routes whose body does not
\* decode is answered 400 and no calculation is called; one whose body decodes
\* calls exactly the route's calculation and is answered 200 with the
\* serialized response; a POST to another path, and every other request that
\* is neither OPTIONS nor GET /health, is answered 404 with no calculation.
C7_Routing ==
    ~Pending =>
        LET post == request.method = "POST"
            route == request.path \in CalcRoutes
        IN  /\ (post /\ route /\ ~request.decodes) =>
                reply.status = 400 /\ invoked = <<>>
            /\ (post /\ route /\ request.decodes) =>
                /\ invoked = <<C7_Function(request.path)>>
                /\ reply.status = 200
                /\ {"chart", "currency_symbol"} \subseteq DOMAIN reply.body
                /\ <<"Content-Type", "application/json">> \in reply.headers
            /\ (post /\ ~route) =>
                reply.status = 404 /\ invoked = <<>>
            /\ (request.method \notin {"OPTIONS", "POST"}
                    /\ ~(request.method = "GET" /\ request.path = "/health")) =>
                reply.status = 404 /\ invoked = <<>>
            /\ invoked # <<>> => (post /\ route /\ request.decodes)

\* a body that does not decode, on a calculator route
C7_Witness ==
    /\ request.method = "POST" /\ request.path = "/calculate/tax"
    /\ ~request.decodes
    /\ reply.status = 400
    /\ invoked = <<>>

\* C9 as stated: for balance >= 0, interest_rate >= 0 and p > balance * r the
\* logarithm's argument is >= 1 and the divisor ln(1+r) is not zero, so months
\* is a defined non-negative integer and total_paid and total_interest are
\* finite numbers.
C9_PayoffWellDefined ==
    LET d == request.data
    IN  (/\ Served("calculate_debt_payoff")
         /\ FLe(I(0), d.balance) /\ FLe(I(0), d.interest_rate)
         /\ FGt(FAdd(d.monthly_payment, d.extra_payment),
                FDiv(FMul(d.balance, d.interest_rate), I(1200)))) =>
            /\ \A i \in 1..Len(divisors) : divisors[i].sign \in {-1, 1}
            /\ reply.body.months >= 0
            /\ IsFinite(reply.body.total_paid)
            /\ IsFinite(reply.body.total_interest)

\* C10 as stated: for a horizon >= 0 the rent loop and the buy loop run
\* horizon * 12 iterations each, and the rent added in month m is
\* monthly_rent * (1 + rent_growth/100)^floor((m-1)/12).
C10_LoopsRunHorizonTimes12 ==
    LET d == request.data
    IN  (Served("calculate_buy_rent") /\ FLe(I(0), d.horizon)) =>
            /\ I(Len(loops.rent)) = FMul(d.horizon, I(12))
            /\ I(loops.buy) = FMul(d.horizon, I(12))
            /\ \A m \in 1..Len(loops.rent) :
                   loops.rent[m] =
                       FMul(d.monthly_rent,
                            Powi(FAdd(I(1), FDiv(d.rent_growth, I(100))),
                                 (m - 1) \div 12))

\* C11 as stated: in every chart a calculation produces from finite values,
\* every bar has a height h with 0 <= h <= 220 and a y = 260 - h with
\* 40 <= y <= 260; an all-zero series gives height 0 for every bar, and no
\* calculation passes the renderer a value that gives a negative height.
C11_BarsInsideChart ==
    \A c \in 1..Len(renders) :
        (\A j \in 1..Len(renders[c].values) : IsFinite(renders[c].values[j])) =>
            \A j \in 1..Len(renders[c].chart.bars) :
                LET bar == renders[c].chart.bars[j]
                IN  /\ 0 <= bar.height /\ bar.height <= 220
                    /\ bar.y = 260 - bar.height
                    /\ 40 <= bar.y /\ bar.y <= 260
                    /\ (\A i \in 1..Len(renders[c].values) :
                            renders[c].values[i] = I(0)) => bar.height = 0

====
